---- MODULE Spec2Model ----
(***************************************************************************)
(* Model of torchgen/dest/lazy_ir.py: the lazy-tensor IR code generator.   *)
(*                                                                         *)
(* The generator is a set of pure emitters from an operator schema to C++  *)
(* text.  A state holds one call: the operation applied (call), the        *)
(* emitter object it is applied to (gen), the operator it is given (func)  *)
(* and what it produced (out).  Text                                       *)
(* is a sequence of tokens, one token per piece of an f-string template;   *)
(* a token is a tuple of strings whose first element names the template    *)
(* piece and whose other elements are the interpolated values.  A raised   *)
(* AssertionError is the result [status |-> "AssertionError"], which       *)
(* carries no text.                                                        *)
(***************************************************************************)
EXTENDS Integers, Sequences, FiniteSets, TLC

VARIABLES call, gen, func, out

vars == <<call, gen, func, out>>

\* Bounds of the model: arguments per schema, declared returns per schema.
MaxArgs == 2
MaxReturns == 2

(***************************************************************************)
(* Resolved types (torchgen.api.types CType, as produced by                *)
(* torchgen.api.lazy.process_ir_type).  A type is the sequence of its      *)
(* constructors, outermost first, ending in the base type's name:          *)
(* OptionalCType(VectorCType(BaseCType(longT))) is                         *)
(* <<"OptionalCType", "VectorCType", "BaseCType", "long">>.                  *)
(***************************************************************************)
BaseCType(t) == <<"BaseCType", t>>
OptionalCType(e) == <<"OptionalCType">> \o e
VectorCType(e) == <<"VectorCType">> \o e
ListCType(e) == <<"ListCType">> \o e
NoType == <<"None">>

isinstance(t, c) == t[1] = c
elem(t) == Tail(t)
basetype(t) == t[2]

getValueT == "Value"
tensorListValueT == "TensorList"

RECURSIVE isValueType(_)
isValueType(t) ==
  IF isinstance(t, "BaseCType")
    THEN basetype(t) = getValueT \/ basetype(t) = tensorListValueT
    ELSE IF t[1] \in {"OptionalCType", "ListCType", "VectorCType"}
      THEN isValueType(elem(t))
      ELSE FALSE

\* CType.cpp_type(): the C++ spelling of a resolved type.
cpp_type(t) ==
  CASE t = BaseCType("Value") -> "torch::lazy::Value"
    [] t = BaseCType("TensorList") -> "torch::lazy::Value"
    [] t = BaseCType("long") -> "int64_t"
    [] t = BaseCType("string_view") -> "c10::string_view"
    [] t = OptionalCType(BaseCType("Value")) -> "c10::optional<torch::lazy::Value>"
    [] t = VectorCType(BaseCType("Value")) -> "std::vector<torch::lazy::Value>"
    [] t = ListCType(OptionalCType(BaseCType("Value")))
         -> "c10::List<c10::optional<torch::lazy::Value>>"
    [] t = VectorCType(BaseCType("long")) -> "std::vector<int64_t>"
    [] t = OptionalCType(VectorCType(BaseCType("long")))
         -> "c10::optional<std::vector<int64_t>>"
    [] OTHER -> "?"

(***************************************************************************)
(* Schema argument types and their LazyArgument classification.            *)
(***************************************************************************)
ArgTypes ==
  { "Tensor", "Tensor?", "Tensor[]", "Tensor?[]", "Scalar", "Scalar?", "Scalar[]",
    "SymInt", "SymInt[]", "int", "int[]", "int[]?", "str", "Generator?" }

process_ir_type(ty) ==
  CASE ty = "Tensor" -> BaseCType(getValueT)
    [] ty = "Tensor?" -> OptionalCType(BaseCType(getValueT))
    [] ty = "Tensor[]" -> BaseCType(tensorListValueT)
    [] ty = "Tensor?[]" -> ListCType(OptionalCType(BaseCType(getValueT)))
    [] ty = "Scalar" -> BaseCType(getValueT)
    [] ty = "Scalar?" -> OptionalCType(BaseCType(getValueT))
    [] ty = "Scalar[]" -> VectorCType(BaseCType(getValueT))
    [] ty = "SymInt" -> BaseCType(getValueT)
    [] ty = "SymInt[]" -> VectorCType(BaseCType(getValueT))
    [] ty = "int" -> BaseCType("long")
    [] ty = "int[]" -> VectorCType(BaseCType("long"))
    [] ty = "int[]?" -> OptionalCType(VectorCType(BaseCType("long")))
    [] ty = "str" -> BaseCType("string_view")
    [] OTHER -> NoType

ArgNames == <<"self", "other", "alpha", "dim", "extra">>

LazyArgument(n, ty) ==
  LET is_generator == ty = "Generator?"
      lazy_type == IF is_generator THEN NoType ELSE process_ir_type(ty)
  IN [ name |-> n,
       orig_type |-> ty,
       lazy_type |-> lazy_type,
       is_generator |-> is_generator,
       is_wrapped_scalar |-> ty \in {"Scalar", "Scalar?", "Scalar[]"},
       is_symint_or_list |-> ty = "SymInt",
       is_lazy_value |-> ~is_generator /\ isValueType(lazy_type) ]

(***************************************************************************)
(* LazyIrSchema (torchgen.api.lazy): the per-operation view of a schema.   *)
(* A NativeFunction is modelled by the fields the emitters read:           *)
(*   args, npos   the argument types in declaration order; the first npos  *)
(*                are positional, the others keyword-only                  *)
(*   returns      len(func.returns)                                        *)
(*   kind         "functional", "inplace" (func.name.name.inplace) or      *)
(*                "out" (func.is_out_fn())                                 *)
(*   structured, structured_delegate (TRUE: is not None)                   *)
(*   aten_name    pieces of the operator's name                            *)
(*   kernel       TRUE when backend_index.get_kernel(f) is not None        *)
(*   overload_name  func.name.overload_name                                *)
(*   op           the entry of the non_native list the schema comes from   *)
(* The schema's generation flags are read with getattr and a default       *)
(* (lines 179-182, 212, 255-258); NativeFlags are those defaults.          *)
(***************************************************************************)
NativeFlags ==
  [ is_non_native |-> FALSE, has_shape |-> TRUE, cache_shape |-> TRUE,
    is_lowerable |-> TRUE, lower_declaration_only |-> FALSE ]

LazyIrSchema(f) ==
  LET largs == [i \in 1..Len(f.args) |-> LazyArgument(ArgNames[i], f.args[i])]
      gens == SelectSeq(largs, LAMBDA a : a.is_generator)
  IN [ positional_args |-> SubSeq(largs, 1, f.npos),
       keyword_args |-> SubSeq(largs, f.npos + 1, Len(largs)),
       returns |-> f.returns,
       inplace |-> f.kind = "inplace",
       aten_name |-> f.aten_name,
       node_name |-> "Node",
       generator_arg |-> IF gens = <<>> THEN <<>> ELSE <<gens[1]>>,
       flags |-> NativeFlags ]

filtered_args(schema, positional, keyword, values, scalars, generator) ==
  LET args == (IF positional THEN schema.positional_args ELSE <<>>)
              \o (IF keyword THEN schema.keyword_args ELSE <<>>)
  IN IF values /\ scalars /\ generator THEN args
     ELSE IF values /\ scalars
       THEN SelectSeq(args, LAMBDA a : ~a.is_generator)
     ELSE IF values
       THEN SelectSeq(args, LAMBDA a : a.is_lazy_value)
     ELSE IF scalars
       THEN SelectSeq(args,
              LAMBDA a : ~a.is_lazy_value /\ (generator \/ ~a.is_generator))
     ELSE <<>>

\* filtered_args() with the defaults of every parameter but the ones given.
all_args(schema) == filtered_args(schema, TRUE, TRUE, TRUE, TRUE, FALSE)
value_args(schema) == filtered_args(schema, TRUE, TRUE, TRUE, FALSE, FALSE)
scalar_args(schema) == filtered_args(schema, TRUE, TRUE, FALSE, TRUE, FALSE)
positional_values(schema) == filtered_args(schema, TRUE, FALSE, TRUE, FALSE, FALSE)
positional_scalars(schema) == filtered_args(schema, TRUE, FALSE, FALSE, TRUE, FALSE)
keyword_values(schema) == filtered_args(schema, FALSE, TRUE, TRUE, FALSE, FALSE)
keyword_scalars(schema) == filtered_args(schema, FALSE, TRUE, FALSE, TRUE, FALSE)

(***************************************************************************)
(* Results of an emission step: text, or a raised AssertionError.          *)
(***************************************************************************)
Ok(text) == [status |-> "ok", at |-> "", text |-> text]
Raise(where) == [status |-> "AssertionError", at |-> where, text |-> <<>>]
NotCalled == [status |-> "none", at |-> "", text |-> <<>>]

\* [f(x) for x in s]
Map(s, F(_)) == [i \in 1..Len(s) |-> F(s[i])]

RECURSIVE Flatten(_)
Flatten(ss) == IF ss = <<>> THEN <<>> ELSE Head(ss) \o Flatten(Tail(ss))

(***************************************************************************)
(* aten_symbol                                                             *)
(***************************************************************************)
missing_interned_strings == {<<"sigmoid_backward">>}

aten_symbol(schema) ==
  IF schema.aten_name \in missing_interned_strings
    THEN <<"c10::Symbol::fromQualString(aten::">> \o schema.aten_name
    ELSE IF Head(schema.aten_name) # "at::"
      THEN <<"at::aten::">> \o schema.aten_name
      ELSE schema.aten_name

(***************************************************************************)
(* GenLazyIR and GenTSLazyIR: the node-class emitters.                     *)
(***************************************************************************)
\* The def statements of each class body, in source order, as
\* <<method name, line of the def>>.  A class body binds a name to the
\* last def of that name; a subclass's binding hides the base class's.
GenLazyIR_defs ==
  << <<"__call__", "129">>, <<"lowering_function", "136">>,
     <<"can_be_reused_function", "143">>, <<"can_be_reused_function", "148">>,
     <<"node_base_ctor_call", "155">>, <<"gen", "202">> >>

GenTSLazyIR_defs ==
  << <<"lowering_function", "297">>, <<"can_be_reused_function", "315">> >>

\* ClassDict binding a name to its first def instead of its last.
ClassDict_first_def(defs, name) ==
  LET found == SelectSeq(defs, LAMBDA d : d[1] = name)
  IN IF found = <<>> THEN "" ELSE found[1][2]

ClassDict(defs, name) ==
  LET found == SelectSeq(defs, LAMBDA d : d[1] = name)
  IN IF found = <<>> THEN "" ELSE found[Len(found)][2]

\* getattr(self, name) for an instance of cls.
Resolve(cls, name) ==
  IF cls = "GenTSLazyIR" /\ ClassDict(GenTSLazyIR_defs, name) # ""
    THEN ClassDict(GenTSLazyIR_defs, name)
    ELSE ClassDict(GenLazyIR_defs, name)

\* base_ctor_value_arg passing an optional value by its bare name.
base_ctor_value_arg_bare_optional(arg) ==
  IF isinstance(arg.lazy_type, "BaseCType") \/ isinstance(arg.lazy_type, "VectorCType")
       \/ isinstance(arg.lazy_type, "OptionalCType")
    THEN Ok(<< <<"oplist_arg", arg.name>> >>)
    ELSE Raise("node_base_ctor_call")

\* base_ctor_value_arg passing a value of any other type by its bare name
\* instead of raising.
base_ctor_value_arg_default_branch(arg) ==
  IF isinstance(arg.lazy_type, "OptionalCType")
    THEN Ok(<< <<"oplist_arg", arg.name, ".value_or(kNullValue)">> >>)
    ELSE Ok(<< <<"oplist_arg", arg.name>> >>)

\* GenLazyIR.node_base_ctor_call: the OpList operands (lines 156-171).
base_ctor_value_arg(arg) ==
  IF isinstance(arg.lazy_type, "BaseCType") \/ isinstance(arg.lazy_type, "VectorCType")
    THEN Ok(<< <<"oplist_arg", arg.name>> >>)
    ELSE IF isinstance(arg.lazy_type, "OptionalCType")
      THEN Ok(<< <<"oplist_arg", arg.name, ".value_or(kNullValue)">> >>)
      ELSE Raise("node_base_ctor_call")

\* GenLazyIR.node_base_ctor_call: the shape argument (lines 178-191).
shape_ctor_arg(schema) ==
  LET vs == value_args(schema)
      ss == scalar_args(schema)
  IN IF ~schema.flags.has_shape THEN <<>>
     ELSE IF schema.flags.is_non_native
       THEN IF schema.flags.cache_shape
         THEN << <<"[&](){ return compute_shape_", schema.node_name>> >>
              \o [i \in 1..Len(vs) |-> <<"shape_arg", "operand", ToString(i - 1)>>]
              \o Map(ss, LAMBDA a : <<"shape_arg", a.name>>)
              \o << <<")[0]; },">> >>
         ELSE << <<"compute_shape_", schema.node_name>> >>
              \o Map(vs, LAMBDA a : <<"shape_arg", a.name>>)
              \o Map(ss, LAMBDA a : <<"shape_arg", a.name>>)
              \o << <<"),">> >>
     ELSE << <<"std::move(shapes),">> >>

\* scalar_hashes hashing every argument, values included.
scalar_hashes_all_args(schema) ==
  Map(all_args(schema), LAMBDA a : <<"hash_arg", a.name>>)

scalar_hashes(schema) == Map(scalar_args(schema), LAMBDA a : <<"hash_arg", a.name>>)

node_base_ctor_call(self, schema) ==
  LET parts == Map(value_args(schema), base_ctor_value_arg)
  IN IF \E i \in 1..Len(parts) : parts[i].status # "ok"
       THEN Raise("node_base_ctor_call")
       ELSE Ok(<< <<"node_base(", "class_op_kind">>, <<"OpList{">> >>
               \o Flatten(Map(parts, LAMBDA r : r.text))
               \o << <<"}">> >>
               \o shape_ctor_arg(schema)
               \o << <<"num_outputs", ToString(schema.returns)>>,
                     <<"torch::lazy::MHash(">> >>
               \o scalar_hashes(schema)
               \o << <<"))">> >>)

\* The constructor parameter list (lines 211-214).
node_ctor_args(schema) ==
  Map(all_args(schema),
      LAMBDA i : <<"ctor_arg", i.name, "const", cpp_type(i.lazy_type), "&">>)
  \o (IF ~schema.flags.is_non_native
        THEN << <<"ctor_arg", "shapes", "std::vector<torch::lazy::Shape>&&">> >>
        ELSE <<>>)

scalar_initializers(schema) ==
  Map(scalar_args(schema), LAMBDA a : <<"scalar_init", a.name, a.name>>)

scalar_decls(schema) ==
  Map(scalar_args(schema),
      LAMBDA a : IF cpp_type(a.lazy_type) = "c10::string_view"
                   THEN <<"scalar_decl", a.name, "std::string">>
                   ELSE <<"scalar_decl", a.name, cpp_type(a.lazy_type)>>)

optional_values(schema) ==
  SelectSeq(value_args(schema), LAMBDA arg : isinstance(arg.lazy_type, "OptionalCType"))

has_optional_decls(schema) ==
  Map(optional_values(schema), LAMBDA v : <<"bool has_", v.name, ": 1;">>)

has_optional_defs(schema) ==
  Map(optional_values(schema), LAMBDA v : <<"has_", v.name, "= !!", v.name, ";">>)

members_to_string(schema) ==
  Map(scalar_args(schema),
      LAMBDA arg : IF isinstance(arg.lazy_type, "OptionalCType")
                     THEN <<"to_string_optional", arg.name>>
                     ELSE <<"to_string", arg.name>>)

\* GenLazyIR.lowering_function / GenTSLazyIR.lowering_function.
lowering_function(self, schema, declaration_only) ==
  IF Resolve(self.class, "lowering_function") = "297"
    THEN << <<"TSOpVector Lower(">> >>
         \o (IF declaration_only THEN << <<";">> >>
             ELSE << <<"{">>, <<"ts_lowering_body">>, <<"}">> >>)
    ELSE <<>>

\* The three definitions of can_be_reused_function, by the line of the def.
can_be_reused_143(schema, ctor_args) == <<>>

can_be_reused_148(schema, ctor_args) ==
  << <<"bool CanBeReused(">> >> \o ctor_args
  \o << <<") const {">>, <<"return false;">>, <<"}">> >>

\* can_be_reused_315 with the keyword values compared before the positional ones.
can_be_reused_315_keyword_first(schema, ctor_args) ==
  << <<"bool CanBeReused(">> >> \o ctor_args
  \o << <<") const {">>, <<"size_t i = 0;">>, <<"return (">> >>
  \o Map(keyword_values(schema), LAMBDA arg : <<"operand(i++) ==", arg.name>>)
  \o Map(positional_values(schema),
         LAMBDA arg : IF isinstance(arg.lazy_type, "OptionalCType")
           THEN <<"operand(i++) ==", arg.name, ".value_or(kNullValue)">>
           ELSE <<"operand(i++) ==", arg.name>>)
  \o Map(positional_scalars(schema), LAMBDA arg : <<"this->", arg.name, "==", arg.name>>)
  \o Map(keyword_scalars(schema), LAMBDA arg : <<"this->", arg.name, "==", arg.name>>)
  \o << <<");">>, <<"}">> >>

can_be_reused_315(schema, ctor_args) ==
  LET value_comparison ==
        Map(positional_values(schema),
            LAMBDA arg : IF isinstance(arg.lazy_type, "OptionalCType")
              THEN <<"operand(i++) ==", arg.name, ".value_or(kNullValue)">>
              ELSE <<"operand(i++) ==", arg.name>>)
        \o Map(positional_scalars(schema), LAMBDA arg : <<"this->", arg.name, "==", arg.name>>)
        \o Map(keyword_values(schema), LAMBDA arg : <<"operand(i++) ==", arg.name>>)
        \o Map(keyword_scalars(schema), LAMBDA arg : <<"this->", arg.name, "==", arg.name>>)
  IN << <<"bool CanBeReused(">> >> \o ctor_args
     \o << <<") const {">>, <<"size_t i = 0;">>, <<"return (">> >>
     \o value_comparison
     \o << <<");">>, <<"}">> >>

can_be_reused_function(self, schema, ctor_args) ==
  LET def == Resolve(self.class, "can_be_reused_function")
  IN CASE def = "143" -> can_be_reused_143(schema, ctor_args)
       [] def = "148" -> can_be_reused_148(schema, ctor_args)
       [] def = "315" -> can_be_reused_315(schema, ctor_args)

\* GenLazyIR.gen: the node class, or the error raised while building it.
GenLazyIR_gen(self, schema) ==
  LET opkind == aten_symbol(schema)
      ctor_args == node_ctor_args(schema)
      lowering == IF schema.flags.is_lowerable
                    THEN lowering_function(self, schema,
                                           schema.flags.lower_declaration_only)
                    ELSE <<>>
      base == node_base_ctor_call(self, schema)
  IN IF base.status # "ok" THEN base
     ELSE Ok(<< <<"class", schema.node_name>>, <<"ClassOpKind">> \o opkind,
                <<"ctor(">> >>
             \o ctor_args
             \o << <<") :">> >>
             \o base.text
             \o scalar_initializers(schema)
             \o << <<"ctor_body {">> >>
             \o has_optional_defs(schema)
             \o << <<"}">>, <<"ToString() {">> >>
             \o members_to_string(schema)
             \o << <<"}">> >>
             \o can_be_reused_function(self, schema, ctor_args)
             \o lowering
             \o scalar_decls(schema)
             \o has_optional_decls(schema)
             \o << <<"};">> >>)

(***************************************************************************)
(* node_ctor_arg_rvalue_string, node_ctor_inputs, gen_fallback_code.       *)
(* A token that carries an argument's name has it at position 2; one that  *)
(* names a C++ local derived from it has the local's prefix and suffix at  *)
(* positions 3 and 4 (lazy_<name>_tensorlist is <<_, name, "lazy_",        *)
(* "_tensorlist">>).                                                        *)
(***************************************************************************)
node_ctor_arg_rvalue_string(arg) ==
  IF isValueType(arg.lazy_type)
    THEN IF isinstance(arg.lazy_type, "BaseCType")
      THEN IF arg.is_wrapped_scalar
             THEN Ok(<< <<"rvalue", arg.name, "node_", "">> >>)
           ELSE IF basetype(arg.lazy_type) = tensorListValueT
             THEN Ok(<< <<"rvalue", arg.name, "lazy_", "_tensorlist">> >>)
           ELSE IF arg.is_symint_or_list
             THEN Ok(<< <<"rvalue", arg.name, "", "", cpp_type(arg.lazy_type),
                         "(dynamic_pointer_cast<SymbolicIntNode>(.toSymbolicIntNode())->node_, 0)">> >>)
           ELSE Ok(<< <<"rvalue", arg.name, "lazy_", "", "->GetIrValue()">> >>)
      ELSE IF isinstance(arg.lazy_type, "OptionalCType")
        THEN IF arg.is_wrapped_scalar
               THEN Ok(<< <<"rvalue", arg.name, "node_", "">> >>)
               ELSE Ok(<< <<"rvalue", arg.name, "lazy_", "",
                           "? c10::make_optional(->GetIrValue()) : c10::nullopt">> >>)
        ELSE Raise("node_ctor_arg_rvalue_string")
    ELSE IF isinstance(arg.lazy_type, "VectorCType")
            /\ isinstance(elem(arg.lazy_type), "BaseCType")
      THEN Ok(<< <<"rvalue", arg.name, "", "", "std::vector<>(.begin(), .end())",
                  basetype(elem(arg.lazy_type))>> >>)
    ELSE IF isinstance(arg.lazy_type, "OptionalCType")
            /\ isinstance(elem(arg.lazy_type), "VectorCType")
            /\ isinstance(elem(elem(arg.lazy_type)), "BaseCType")
      THEN Ok(<< <<"rvalue", arg.name, "", "", "torch::lazy::ToOptionalVector<>()",
                  basetype(elem(elem(arg.lazy_type)))>> >>)
    ELSE Ok(<< <<"rvalue", arg.name, "", "">> >>)

node_ctor_inputs(schema) ==
  LET node_ctor_values == Map(all_args(schema), node_ctor_arg_rvalue_string)
  IN IF \E i \in 1..Len(node_ctor_values) : node_ctor_values[i].status # "ok"
       THEN Raise("node_ctor_arg_rvalue_string")
       ELSE Ok(Flatten(Map(node_ctor_values, LAMBDA r : r.text)))

gen_fallback_code(schema, overload_name) ==
  LET fallback_args ==
        Map(filtered_args(schema, TRUE, TRUE, TRUE, TRUE, TRUE),
            LAMBDA arg : <<"fallback_arg", arg.name>>)
      aten_op_str == IF overload_name # ""
                       THEN <<"ATEN_OP2(">> \o schema.aten_name \o <<overload_name>>
                       ELSE <<"ATEN_OP(">> \o schema.aten_name
      or_has_generator ==
        IF schema.generator_arg # <<>>
          THEN << <<"|| (.has_value() && ->defined())", schema.generator_arg[1].name>> >>
          ELSE <<>>
  IN << <<"if (force_eager_fallback(">> \o aten_symbol(schema) >>
     \o or_has_generator
     \o << <<") { return call_fallback_fn<&ltc_eager_fallback,">> \o aten_op_str >>
     \o fallback_args
     \o << <<"); }">> >>

(***************************************************************************)
(* ComputeShapeSignature                                                   *)
(***************************************************************************)
\* dispatcher.arguments(f.func): every argument of the schema, declared.
dispatcher_arguments(f) ==
  [i \in 1..Len(f.args) |-> <<"decl_arg", f.args[i], ArgNames[i]>>]

\* ComputeShapeSignature with the call arguments of filtered_args(), which
\* leaves the generator out.
ComputeShapeSignature_without_generator(kernel_name, f) ==
  [ dispatch_args |-> dispatcher_arguments(f),
    call_args |-> Map(all_args(LazyIrSchema(f)), LAMBDA arg : <<"call_arg", arg.name>>),
    kernel_name |-> kernel_name ]

ComputeShapeSignature(kernel_name, f) ==
  [ dispatch_args |-> dispatcher_arguments(f),
    call_args |-> Map(filtered_args(LazyIrSchema(f), TRUE, TRUE, TRUE, TRUE, TRUE),
                      LAMBDA arg : <<"call_arg", arg.name>>),
    kernel_name |-> kernel_name ]

shape_decl(sig) ==
  << <<"TORCH_API std::vector<torch::lazy::Shape> compute_shape_", sig.kernel_name>> >>
  \o sig.dispatch_args \o << <<")">> >>

shape_call(sig) ==
  << <<"torch::lazy::compute_shape_", sig.kernel_name>> >>
  \o sig.call_args \o << <<")">> >>

(***************************************************************************)
(* GenLazyNativeFuncDefinition: the dispatch-function emitter.             *)
(***************************************************************************)
lazy_tensor_decl(arg) ==
  IF arg.is_wrapped_scalar
    THEN IF isinstance(arg.lazy_type, "OptionalCType")
      THEN Ok(<< <<"decl", arg.name, "node_", "",
                  "? c10::make_optional(GetIrValueForScalarFromCodegen(*)) : c10::nullopt">> >>)
      ELSE Ok(<< <<"decl", arg.name, "node_", "", "GetIrValueForScalarFromCodegen()">> >>)
  ELSE IF arg.is_symint_or_list
    THEN Ok(<<>>)
  ELSE IF isinstance(arg.lazy_type, "BaseCType")
    THEN IF basetype(arg.lazy_type) = tensorListValueT
      THEN Ok(<< <<"decl", arg.name, "lazy_", "_tensorlist", "get_tensorlist()">> >>)
      ELSE Ok(<< <<"decl", arg.name, "lazy_", "",
                  "get_tensor_or_wrap_number(, *common_device)">> >>)
  ELSE IF isinstance(arg.lazy_type, "OptionalCType")
    THEN Ok(<< <<"decl", arg.name, "lazy_", "", "try_get_tensor(.value_or(at::Tensor()))">> >>)
  ELSE Raise("lazy_tensor_decls")

lazy_tensor_decls(self, f, schema) ==
  LET decls == Map(value_args(schema), lazy_tensor_decl)
  IN IF \E i \in 1..Len(decls) : decls[i].status # "ok"
       THEN Raise("lazy_tensor_decls")
       ELSE Ok(Flatten(Map(decls, LAMBDA r : r.text)))

force_eager_fallback(self, f, schema) ==
  IF self.gen_forced_fallback_code
    THEN Ok(gen_fallback_code(schema, f.overload_name))
    ELSE Ok(<<>>)

metrics(self, f, schema) == Ok(<< <<"metrics_counter;">> >>)

\* The names both get_device and return_aten_tensor compute (lines 410-411, 476-477).
value_types_names(schema) ==
  Map(SelectSeq(value_args(schema), LAMBDA a : ~a.is_wrapped_scalar),
      LAMBDA a : a.name)

\* get_device resolving the device from every value argument, wrapped
\* scalars included.
get_device_all_values(self, f, schema) ==
  LET names == Map(value_args(schema), LAMBDA a : a.name)
  IN IF ~(Len(names) > 0) THEN Raise("get_device")
     ELSE Ok(<< <<"auto common_device = get_device_fn(">> >>
             \o Map(names, LAMBDA n : <<"device_arg", n>>)
             \o << <<"); device">>, <<"TORCH_INTERNAL_ASSERT(common_device);">> >>)

get_device(self, f, schema) ==
  LET names == value_types_names(schema)
  IN IF ~(Len(names) > 0) THEN Raise("get_device")
     ELSE Ok(<< <<"auto common_device = get_device_fn(">> >>
             \o Map(names, LAMBDA n : <<"device_arg", n>>)
             \o << <<"); device">>, <<"TORCH_INTERNAL_ASSERT(common_device);">> >>)

shape_inference(self, f, schema) ==
  LET args == all_args(schema)
      returns_length == schema.returns
      meta_out ==
        IF returns_length > 1
          THEN << <<"std::vector<torch::lazy::Shape> shapes{">> >>
               \o [i \in 1..returns_length |-> <<"shape_of", "std::get<>(out_meta)", ToString(i - 1)>>]
               \o << <<"};">> >>
          ELSE << <<"std::vector<torch::lazy::Shape> shapes{">>,
                  <<"shape_of", "out_meta">>, <<"};">> >>
      shape_str ==
        IF f.structured \/ f.structured_delegate
          THEN << <<"auto out_meta = at::meta::">> \o schema.aten_name >>
               \o Map(args, LAMBDA a : <<"meta_arg", a.name>>)
               \o << <<"); meta">> >>
               \o meta_out
          ELSE << <<"auto shapes =">> >>
               \o shape_call(ComputeShapeSignature("kernel", f))
               \o << <<"; shapes">> >>
  IN IF ~f.kernel THEN Raise("shape_inference")
     ELSE Ok(shape_str
             \o << <<"TORCH_INTERNAL_ASSERT(shapes.size() ==", ToString(returns_length)>>,
                   <<"if(torch::lazy::symbolicShapeEnabled()){">> >>
             \o Map(args, LAMBDA a : <<"ivalue", a.name>>)
             \o << <<"schema_str", "aten::">> \o f.aten_name,
                   <<"applySymbolicShapesOnLT(schema_str, inputs, shapes);">>,
                   <<"} symbolic">> >>)

\* build_ir_node with the shape inference emitted ahead of the ReuseNode attempt.
build_ir_node_shapes_first(self, f, schema) ==
  LET node_ctor_input_str == node_ctor_inputs(schema)
      shapes == shape_inference(self, f, schema)
  IN IF node_ctor_input_str.status # "ok" THEN node_ctor_input_str
     ELSE IF shapes.status # "ok" THEN shapes
     ELSE Ok(shapes.text
             \o << <<"torch::lazy::NodePtr node = torch::lazy::ReuseNode<", schema.node_name>> >>
             \o node_ctor_input_str.text
             \o << <<"); reuse">>, <<"if (!node) {">> >>
             \o << <<"node = torch::lazy::MakeNode<", schema.node_name>> >>
             \o node_ctor_input_str.text
             \o << <<", std::move(shapes));">>, <<"CacheNode(node);">>, <<"} miss">> >>)

build_ir_node(self, f, schema) ==
  LET node_ctor_input_str == node_ctor_inputs(schema)
      shapes == shape_inference(self, f, schema)
  IN IF node_ctor_input_str.status # "ok" THEN node_ctor_input_str
     ELSE IF shapes.status # "ok" THEN shapes
     ELSE Ok(<< <<"torch::lazy::NodePtr node = torch::lazy::ReuseNode<", schema.node_name>> >>
             \o node_ctor_input_str.text
             \o << <<"); reuse">>, <<"if (!node) {">> >>
             \o shapes.text
             \o << <<"node = torch::lazy::MakeNode<", schema.node_name>> >>
             \o node_ctor_input_str.text
             \o << <<", std::move(shapes));">>, <<"CacheNode(node);">>, <<"} miss">> >>)

create_lazy_tensor(self, first_tensor_name) ==
  IF self.create_from_first_tensor
    THEN <<"create_lazy_tensor", first_tensor_name, ".create_tensor">>
    ELSE <<"create_lazy_tensor", "backend_namespace", "::create_tensor">>

\* The three forms of bridge_str (lines 482-483, 486-490, 497-498).
bridge_single(self, first_tensor_name) ==
  << <<"auto result = create_aten_from_ltc_tensor(">>,
     create_lazy_tensor(self, first_tensor_name),
     <<"(std::move(node), *common_device));">> >>

bridge_tuple(self, first_tensor_name, returns_length) ==
  << <<"std::vector<lazy_tensor_ptr> lazy_tensors;">>,
     <<"for (int i = 0; i <", ToString(returns_length)>>,
     <<"lazy_tensors.push_back(">>,
     create_lazy_tensor(self, first_tensor_name),
     <<"(Value(node, i), *common_device)); }">>,
     <<"auto result = tuple_aten_from_ltc_tensors<", ToString(returns_length)>> >>

bridge_inplace(first_tensor_name) ==
  << <<"use", first_tensor_name, "lazy_", "", "->SetInPlaceIrValue(node);">>,
     <<"auto& result =", first_tensor_name>> >>

\* return_aten_tensor without the assertion of lines 493-496.
return_aten_tensor_unasserted(self, f, schema) ==
  LET names == value_types_names(schema)
  IN IF ~(Len(names) > 0) THEN Raise("return_aten_tensor")
     ELSE IF schema.inplace \/ f.kind = "out"
       THEN Ok(bridge_inplace(names[1]) \o << <<"return result;">> >>)
     ELSE Ok((IF schema.returns > 1
                THEN bridge_tuple(self, names[1], schema.returns)
                ELSE bridge_single(self, names[1]))
             \o << <<"return result;">> >>)

\* return_aten_tensor packing a tuple as soon as there is one return.
return_aten_tensor_tuple_from_one(self, f, schema) ==
  LET returns_length == schema.returns
      names == value_types_names(schema)
      first_tensor_name == names[1]
      bridge_str == IF returns_length >= 1
                      THEN bridge_tuple(self, first_tensor_name, returns_length)
                      ELSE bridge_single(self, first_tensor_name)
  IN IF ~(Len(names) > 0) THEN Raise("return_aten_tensor")
     ELSE IF schema.inplace \/ f.kind = "out"
       THEN IF ~(returns_length = 1) THEN Raise("return_aten_tensor")
            ELSE Ok(bridge_inplace(first_tensor_name) \o << <<"return result;">> >>)
     ELSE Ok(bridge_str \o << <<"return result;">> >>)

return_aten_tensor(self, f, schema) ==
  LET returns_length == schema.returns
      names == value_types_names(schema)
      first_tensor_name == names[1]
      bridge_str == IF returns_length > 1
                      THEN bridge_tuple(self, first_tensor_name, returns_length)
                      ELSE bridge_single(self, first_tensor_name)
  IN IF ~(Len(names) > 0) THEN Raise("return_aten_tensor")
     ELSE IF schema.inplace \/ f.kind = "out"
       THEN IF ~(returns_length = 1) THEN Raise("return_aten_tensor")
            ELSE Ok(bridge_inplace(first_tensor_name) \o << <<"return result;">> >>)
     ELSE Ok(bridge_str \o << <<"return result;">> >>)

\* The f-string of __call__ evaluates its fields in order; the first field
\* that raises ends the call.
RECURSIVE FirstRaise(_)
FirstRaise(rs) ==
  IF rs = <<>> THEN NotCalled
  ELSE IF Head(rs).status # "ok" THEN Head(rs)
  ELSE FirstRaise(Tail(rs))

GenLazyNativeFuncDefinition_call(self, f) ==
  LET schema == LazyIrSchema(f)
      fields == << force_eager_fallback(self, f, schema),
                   metrics(self, f, schema),
                   get_device(self, f, schema),
                   lazy_tensor_decls(self, f, schema),
                   build_ir_node(self, f, schema),
                   return_aten_tensor(self, f, schema) >>
  IN IF ~f.kernel THEN Raise("__call__")
     ELSE IF FirstRaise(fields).status # "none" THEN FirstRaise(fields)
     ELSE Ok(<< <<"sig.decl", "class_method_name::", "kernel">>, <<"{ body">> >>
             \o Flatten(Map(fields, LAMBDA r : r.text))
             \o << <<"}; body">> >>)

(***************************************************************************)
(* GenLazyShapeInferenceDefinition                                         *)
(***************************************************************************)
\* GenLazyShapeInferenceDefinition.__call__ testing f.structured alone.
GenLazyShapeInferenceDefinition_call_ignoring_delegate(self, f) ==
  IF ~f.kernel THEN Raise("__call__")
  ELSE IF ~f.structured
    THEN Ok(shape_decl(ComputeShapeSignature("kernel", f)) \o << <<";">> >>)
    ELSE Ok(<<>>)

GenLazyShapeInferenceDefinition_call(self, f) ==
  IF ~f.kernel THEN Raise("__call__")
  ELSE IF ~f.structured /\ ~f.structured_delegate
    THEN Ok(shape_decl(ComputeShapeSignature("kernel", f)) \o << <<";">> >>)
    ELSE Ok(<<>>)

(***************************************************************************)
(* generate_non_native_lazy_ir_nodes: one entry of the non_native list.    *)
(***************************************************************************)
non_native_schema(f, op) ==
  LET schema == LazyIrSchema(f)
  IN [schema EXCEPT
        !.aten_name = IF op.opkind # <<>> THEN op.opkind ELSE @,
        !.flags = [ is_non_native |-> TRUE,
                    has_shape |-> op.has_shape,
                    cache_shape |-> op.cache_shape,
                    is_lowerable |-> op.is_lowerable,
                    lower_declaration_only |-> op.lower_declaration_only ]]

(***************************************************************************)
(* The inputs.  A state is one call of the generator: the operation to     *)
(* apply (call), the object it is applied to (gen), the operator it is     *)
(* given (func) and, once made, its result (out).  Every call draws the    *)
(* fields of func that its code reads; the others keep their defaults.     *)
(***************************************************************************)
\* Argument lists of at most MaxArgs arguments with at most one generator
\* (line 98: there is never more than one).
ArgLists ==
  { a \in UNION { [1..n -> ArgTypes] : n \in 0..MaxArgs } :
      Cardinality({i \in DOMAIN a : a[i] = "Generator?"}) <= 1 }

NoOp ==
  [ opkind |-> <<>>, has_shape |-> TRUE, cache_shape |-> TRUE,
    is_lowerable |-> FALSE, lower_declaration_only |-> TRUE ]

NativeFunction(args, npos) ==
  [ args |-> args, npos |-> npos, returns |-> 1, kind |-> "functional",
    structured |-> FALSE, structured_delegate |-> FALSE,
    aten_name |-> <<"add">>, overload_name |-> "", kernel |-> TRUE,
    op |-> NoOp ]

Kinds == {"functional", "inplace", "out"}
AtenNames == {<<"add">>, <<"sigmoid_backward">>}

\* Operators with every split into positional and keyword-only arguments,
\* and with every argument positional.
Schemas == { NativeFunction(a, n) : a \in ArgLists, n \in 0..MaxArgs }
Positionals == { NativeFunction(a, Len(a)) : a \in ArgLists }

\* Entries of the non_native list: each group of flags varies with the
\* others at the values of NoOp.
Ops ==
  { [NoOp EXCEPT !.has_shape = h, !.cache_shape = c] : h \in BOOLEAN, c \in BOOLEAN }
  \cup { [NoOp EXCEPT !.is_lowerable = l, !.lower_declaration_only = d] :
           l \in BOOLEAN, d \in BOOLEAN }
  \cup { [NoOp EXCEPT !.opkind = k] : k \in {<<"at::", "cat">>, <<"cat">>} }

IRGens == [class : {"GenLazyIR", "GenTSLazyIR"}]

NativeGens ==
  [ class : {"GenLazyNativeFuncDefinition"},
    gen_forced_fallback_code : BOOLEAN, create_from_first_tensor : BOOLEAN ]

ShapeGens == [class : {"GenLazyShapeInferenceDefinition"}]

\* An out= operator carries an overload name (add.out).
WithKind(f, k) ==
  [f EXCEPT !.kind = k, !.overload_name = IF k = "out" THEN "out" ELSE ""]

Result(r) == [status |-> r.status, at |-> r.at, text |-> r.text]

InitIR ==
  /\ gen \in IRGens
  /\ \/ /\ call = "GenLazyIR.__call__"
        /\ func \in { [f EXCEPT !.returns = r, !.aten_name = n] :
                        f \in {s \in Schemas : s.npos <= Len(s.args)},
                        r \in 0..MaxReturns, n \in AtenNames }
     \/ /\ call = "generate_non_native_lazy_ir_nodes"
        /\ func \in { [f EXCEPT !.op = o] :
                        f \in {s \in Schemas : s.npos <= Len(s.args)}, o \in Ops }
  /\ out = NotCalled

InitNative ==
  /\ call = "GenLazyNativeFuncDefinition.__call__"
  /\ gen \in NativeGens
  /\ func \in { [WithKind(f, k) EXCEPT !.returns = r, !.structured = s,
                                      !.structured_delegate = d] :
                  f \in Positionals, k \in Kinds, r \in 0..MaxReturns,
                  s \in BOOLEAN, d \in BOOLEAN }
              \cup { [f EXCEPT !.kernel = FALSE] : f \in Positionals }
  /\ out = NotCalled

InitReturn ==
  /\ call = "return_aten_tensor"
  /\ gen \in {g \in NativeGens : ~g.gen_forced_fallback_code}
  /\ func \in { [WithKind(f, k) EXCEPT !.returns = r] :
                  f \in Positionals, k \in Kinds, r \in 0..MaxReturns }
  /\ out = NotCalled

InitShape ==
  /\ \/ /\ call = "shape_inference"
        /\ gen \in {g \in NativeGens :
                      ~g.gen_forced_fallback_code /\ ~g.create_from_first_tensor}
        /\ func \in { [f EXCEPT !.returns = r, !.structured = s,
                                !.structured_delegate = d, !.kernel = m] :
                        f \in Positionals, r \in 0..MaxReturns,
                        s \in BOOLEAN, d \in BOOLEAN, m \in BOOLEAN }
     \/ /\ call = "GenLazyShapeInferenceDefinition.__call__"
        /\ gen \in ShapeGens
        /\ func \in { [f EXCEPT !.structured = s, !.structured_delegate = d,
                                !.kernel = m] :
                        f \in Positionals,
                        s \in BOOLEAN, d \in BOOLEAN, m \in BOOLEAN }
     \/ /\ call = "ComputeShapeSignature.shape_call"
        /\ gen = [class |-> "ComputeShapeSignature"]
        /\ func \in Positionals
  /\ out = NotCalled

Init == InitIR \/ InitNative \/ InitReturn \/ InitShape

(***************************************************************************)
(* The operations.                                                         *)
(***************************************************************************)
GenLazyIR___call__ ==
  /\ call = "GenLazyIR.__call__"
  /\ out.status = "none"
  /\ out' = Result(GenLazyIR_gen(gen, LazyIrSchema(func)))
  /\ UNCHANGED <<call, gen, func>>

generate_non_native_lazy_ir_nodes ==
  /\ call = "generate_non_native_lazy_ir_nodes"
  /\ out.status = "none"
  /\ out' = Result(GenLazyIR_gen(gen, non_native_schema(func, func.op)))
  /\ UNCHANGED <<call, gen, func>>

GenLazyNativeFuncDefinition___call__ ==
  /\ call = "GenLazyNativeFuncDefinition.__call__"
  /\ out.status = "none"
  /\ out' = Result(GenLazyNativeFuncDefinition_call(gen, func))
  /\ UNCHANGED <<call, gen, func>>

GenLazyNativeFuncDefinition_return_aten_tensor ==
  /\ call = "return_aten_tensor"
  /\ out.status = "none"
  /\ out' = Result(return_aten_tensor(gen, func, LazyIrSchema(func)))
  /\ UNCHANGED <<call, gen, func>>

GenLazyNativeFuncDefinition_shape_inference ==
  /\ call = "shape_inference"
  /\ out.status = "none"
  /\ out' = Result(shape_inference(gen, func, LazyIrSchema(func)))
  /\ UNCHANGED <<call, gen, func>>

GenLazyShapeInferenceDefinition___call__ ==
  /\ call = "GenLazyShapeInferenceDefinition.__call__"
  /\ out.status = "none"
  /\ out' = Result(GenLazyShapeInferenceDefinition_call(gen, func))
  /\ UNCHANGED <<call, gen, func>>

ComputeShapeSignature_shape_call ==
  /\ call = "ComputeShapeSignature.shape_call"
  /\ out.status = "none"
  /\ out' = Result(Ok(shape_call(ComputeShapeSignature("kernel", func))))
  /\ UNCHANGED <<call, gen, func>>

NextIR == GenLazyIR___call__ \/ generate_non_native_lazy_ir_nodes

NextNative == GenLazyNativeFuncDefinition___call__

NextReturn == GenLazyNativeFuncDefinition_return_aten_tensor

NextShape ==
  \/ GenLazyNativeFuncDefinition_shape_inference
  \/ GenLazyShapeInferenceDefinition___call__
  \/ ComputeShapeSignature_shape_call

Next == NextIR \/ NextNative \/ NextReturn \/ NextShape

SpecIR == InitIR /\ [][NextIR]_vars
SpecNative == InitNative /\ [][NextNative]_vars
SpecReturn == InitReturn /\ [][NextReturn]_vars
SpecShape == InitShape /\ [][NextShape]_vars
Spec == Init /\ [][Next]_vars

(***************************************************************************)
(* Reading emitted text and the operator it was emitted for.               *)
(***************************************************************************)
Tagged(text, tag) == SelectSeq(text, LAMBDA t : t[1] = tag)
NamesOf(toks) == Map(toks, LAMBDA t : t[2])
ToSet(seq) == {seq[i] : i \in DOMAIN seq}
Restrict(seq, S) == SelectSeq(seq, LAMBDA x : x \in S)
Has(text, tag) == \E i \in DOMAIN text : text[i][1] = tag
FirstIdx(text, tag) == CHOOSE i \in DOMAIN text :
  text[i][1] = tag /\ \A j \in 1..(i - 1) : text[j][1] # tag
LastIdx(text, tag) == CHOOSE i \in DOMAIN text :
  text[i][1] = tag /\ \A j \in (i + 1)..Len(text) : text[j][1] # tag

\* The tokens after the first `open` and before the next `close`.
Between(text, open, close) ==
  IF ~Has(text, open) THEN <<>>
  ELSE LET i == FirstIdx(text, open)
           rest == SubSeq(text, i + 1, Len(text))
       IN IF ~Has(rest, close) THEN rest
          ELSE SubSeq(rest, 1, FirstIdx(rest, close) - 1)

\* The schema's argument types by what they denote.
ValueTypes == { "Tensor", "Tensor?", "Tensor[]", "Tensor?[]", "Scalar", "Scalar?",
                "Scalar[]", "SymInt", "SymInt[]" }
ScalarTypes == {"int", "int[]", "int[]?", "str"}
OptionalValueTypes == {"Tensor?", "Scalar?"}
WrappedScalarTypes == {"Scalar", "Scalar?", "Scalar[]"}

\* The names of func's arguments of the given types, in declaration order.
ArgsOfType(f, types) ==
  LET idx == SelectSeq([i \in 1..Len(f.args) |-> i], LAMBDA i : f.args[i] \in types)
  IN Map(idx, LAMBDA i : ArgNames[i])

IRCalls == {"GenLazyIR.__call__", "generate_non_native_lazy_ir_nodes"}
EmittedIR == call \in IRCalls /\ out.status = "ok"

CtorParams == NamesOf(Tagged(Between(out.text, "ctor(", ") :"), "ctor_arg"))
OpList == Between(out.text, "OpList{", "}")
OperandComparisons == Tagged(out.text, "operand(i++) ==")
MemberComparisons == Tagged(out.text, "this->")

(***************************************************************************)
(* C1: in every emitted node class the value arguments come in the same    *)
(* relative order in the constructor parameter list and in the OpList of   *)
(* the base-constructor call, and in the class GenTSLazyIR emits the k-th  *)
(* operand(i++) comparison names the k-th OpList argument; the scalar      *)
(* arguments come in the same relative order in the constructor parameter  *)
(* list and in the this-><name> comparisons.                               *)
(***************************************************************************)
C1_ArgumentOrder ==
  EmittedIR =>
    LET values == ToSet(ArgsOfType(func, ValueTypes))
        scalars == ToSet(ArgsOfType(func, ScalarTypes))
    IN /\ Restrict(CtorParams, values) = NamesOf(OpList)
       /\ ToSet(NamesOf(OpList)) = values
       /\ gen.class = "GenTSLazyIR" =>
            /\ NamesOf(OperandComparisons) = NamesOf(OpList)
            /\ NamesOf(MemberComparisons) = Restrict(CtorParams, scalars)
            /\ ToSet(NamesOf(MemberComparisons)) = scalars

\* A GenTSLazyIR class with a positional and a keyword value argument.
C1_Witness ==
  /\ EmittedIR
  /\ gen.class = "GenTSLazyIR"
  /\ func.npos = 1
  /\ Len(OperandComparisons) = 2

(***************************************************************************)
(* C3: in every emitted node class each optional value argument x has      *)
(* exactly one presence-flag declaration "bool has_x: 1;", exactly one     *)
(* assignment "has_x = !!x;" in the constructor body, and is passed to the *)
(* OpList as x.value_or(kNullValue); every other value argument has no     *)
(* presence flag and is passed by its bare name.                           *)
(***************************************************************************)
FlagDecls(x) == SelectSeq(out.text, LAMBDA t : t = <<"bool has_", x, ": 1;">>)
FlagDefs(x) ==
  SelectSeq(Between(out.text, "ctor_body {", "}"),
            LAMBDA t : t = <<"has_", x, "= !!", x, ";">>)
FlagsNamed(x) ==
  SelectSeq(out.text, LAMBDA t : t[1] \in {"bool has_", "has_"} /\ t[2] = x)
OpListArgs(x) == SelectSeq(OpList, LAMBDA t : t[2] = x)

C3_OptionalPresence ==
  EmittedIR =>
    \A i \in 1..Len(func.args) :
      func.args[i] \in ValueTypes =>
        LET x == ArgNames[i]
        IN IF func.args[i] \in OptionalValueTypes
             THEN /\ Len(FlagDecls(x)) = 1
                  /\ Len(FlagDefs(x)) = 1
                  /\ Len(FlagsNamed(x)) = 2
                  /\ OpListArgs(x) = << <<"oplist_arg", x, ".value_or(kNullValue)">> >>
             ELSE /\ FlagsNamed(x) = <<>>
                  /\ OpListArgs(x) = << <<"oplist_arg", x>> >>

\* A class with an optional and a non-optional value argument.
C3_Witness ==
  /\ EmittedIR
  /\ \E i, j \in 1..Len(func.args) :
       /\ func.args[i] \in OptionalValueTypes
       /\ func.args[j] \in ValueTypes \ OptionalValueTypes
       /\ Len(FlagDecls(ArgNames[i])) = 1

(***************************************************************************)
(* C4: in every emitted node class the arguments of torch::lazy::MHash are *)
(* exactly the scalar arguments, each once and in declaration order; no    *)
(* value argument is hashed; and the hashed arguments are the ones with a  *)
(* scalar member declaration and the ones with a member initializer.       *)
(***************************************************************************)
HashArgs == Between(out.text, "torch::lazy::MHash(", "))")

C4_HashScalarsOnly ==
  EmittedIR =>
    /\ \A i \in DOMAIN HashArgs : HashArgs[i][1] = "hash_arg"
    /\ NamesOf(HashArgs) = ArgsOfType(func, ScalarTypes)
    /\ ToSet(NamesOf(HashArgs)) \cap ToSet(ArgsOfType(func, ValueTypes)) = {}
    /\ NamesOf(Tagged(out.text, "scalar_decl")) = NamesOf(HashArgs)
    /\ NamesOf(Tagged(out.text, "scalar_init")) = NamesOf(HashArgs)

\* A class with a value argument and a hashed scalar argument.
C4_Witness ==
  /\ EmittedIR
  /\ Len(HashArgs) = 1
  /\ Len(OpList) = 1

(***************************************************************************)
(* C10: the class the base emitter GenLazyIR emits has one CanBeReused     *)
(* method, whose parameter list is the constructor's and whose body is     *)
(* "return false;": the def of line 148 is the one in effect, never the    *)
(* empty-string def of line 143.                                           *)
(***************************************************************************)
C10_BaseNeverReuses ==
  (EmittedIR /\ gen.class = "GenLazyIR") =>
    /\ Len(Tagged(out.text, "bool CanBeReused(")) = 1
    /\ Between(out.text, "bool CanBeReused(", ") const {")
         = Between(out.text, "ctor(", ") :")
    /\ Between(out.text, ") const {", "}") = << <<"return false;">> >>

\* A class from the base emitter for a schema with two arguments.
C10_Witness ==
  /\ EmittedIR
  /\ gen.class = "GenLazyIR"
  /\ Len(func.args) = 2
  /\ Has(out.text, "return false;")

(***************************************************************************)
(* C2: for an operation declared as in-place that has a tensor argument,   *)
(* return_aten_tensor emits the in-place return path (SetInPlaceIrValue on *)
(* the first non-wrapped-scalar value argument, which it returns, and no   *)
(* new result tensor) when the operation declares exactly one return; with *)
(* zero returns, or more than one, it fails the assertion of line 493 and  *)
(* emits nothing.                                                          *)
(***************************************************************************)
TensorArgs == ArgsOfType(func, ValueTypes \ WrappedScalarTypes)
Returned == call = "return_aten_tensor" /\ out.status # "none"
MutatesFirstTensor ==
  /\ out.status = "ok"
  /\ out.text = << <<"use", TensorArgs[1], "lazy_", "", "->SetInPlaceIrValue(node);">>,
                   <<"auto& result =", TensorArgs[1]>>,
                   <<"return result;">> >>

C2_InPlaceOneReturn ==
  (Returned /\ func.kind = "inplace" /\ TensorArgs # <<>>) =>
    IF func.returns = 1
      THEN MutatesFirstTensor
      ELSE out.status = "AssertionError" /\ out.at = "return_aten_tensor"
           /\ out.text = <<>>

\* The claim as stated: an in-place operation with zero returns gets the
\* in-place return path.
C2_ZeroReturnsInPlace ==
  (Returned /\ func.kind = "inplace" /\ func.returns = 0 /\ TensorArgs # <<>>) =>
    MutatesFirstTensor

\* An in-place operation with one return and two tensor arguments.
C2_Witness ==
  /\ Returned
  /\ func.kind = "inplace"
  /\ func.returns = 1
  /\ Len(TensorArgs) = 2
  /\ MutatesFirstTensor

(***************************************************************************)
(* C5: the arguments of every emitted compute_shape_<kernel>(...) call are *)
(* the names of all the operation's arguments in declaration order, the    *)
(* generator argument included (filtered_args(generator=True)).            *)
(***************************************************************************)
ShapeCallEmitted ==
  /\ call \in {"ComputeShapeSignature.shape_call", "shape_inference"}
  /\ out.status = "ok"
  /\ Has(out.text, "torch::lazy::compute_shape_")
ShapeCallArgs == NamesOf(Between(out.text, "torch::lazy::compute_shape_", ")"))

C5_ShapeCallPassesGenerator ==
  ShapeCallEmitted => ShapeCallArgs = ArgsOfType(func, ArgTypes)

\* The claim as stated: no generator argument is passed to compute_shape.
C5_ShapeCallExcludesGenerator ==
  ShapeCallEmitted =>
    ToSet(ShapeCallArgs) \cap ToSet(ArgsOfType(func, {"Generator?"})) = {}

\* A call for an operation with a tensor and a generator argument.
C5_Witness ==
  /\ ShapeCallEmitted
  /\ func.args = <<"Tensor", "Generator?">>
  /\ Len(ShapeCallArgs) = 2

(***************************************************************************)
(* C6: shape_inference emits a compute_shape_<kernel> call and no          *)
(* at::meta:: call exactly for the operations that are neither structured  *)
(* nor have a structured delegate, and the at::meta:: call and no          *)
(* compute_shape call for the others; GenLazyShapeInferenceDefinition      *)
(* emits a compute_shape declaration for exactly the operations that get   *)
(* the call.  (Both raise when the backend has no kernel for the           *)
(* operation.)                                                             *)
(***************************************************************************)
Unstructured == ~func.structured /\ ~func.structured_delegate
ComputeShapeCall ==
  out.status = "ok" /\ Has(out.text, "torch::lazy::compute_shape_")
MetaCall == out.status = "ok" /\ Has(out.text, "auto out_meta = at::meta::")
ComputeShapeDecl ==
  /\ out.status = "ok"
  /\ Has(out.text, "TORCH_API std::vector<torch::lazy::Shape> compute_shape_")

C6_ShapeCallIffDeclared ==
  /\ (call = "shape_inference" /\ out.status # "none") =>
       /\ ComputeShapeCall <=> (func.kernel /\ Unstructured)
       /\ MetaCall <=> (func.kernel /\ ~Unstructured)
  /\ (call = "GenLazyShapeInferenceDefinition.__call__" /\ out.status # "none") =>
       /\ ComputeShapeDecl <=> (func.kernel /\ Unstructured)
       /\ ~ComputeShapeDecl => out.text = <<>>

\* A declaration emitted for a two-argument operation that is neither
\* structured nor has a structured delegate.
C6_Witness ==
  /\ call = "GenLazyShapeInferenceDefinition.__call__"
  /\ ComputeShapeDecl
  /\ Len(func.args) = 2

(***************************************************************************)
(* C7: in every function body GenLazyNativeFuncDefinition.__call__ emits,  *)
(* the fragments come in the order eager-fallback guard (exactly when      *)
(* enabled), metrics increment, device resolution, argument unwrapping,    *)
(* node construction, result materialization; and in the node construction *)
(* the shape-inference text, the shapes.size() == <returns> assertion      *)
(* included, lies inside the cache-miss branch, after the ReuseNode        *)
(* attempt and before MakeNode, with CacheNode after MakeNode.             *)
(***************************************************************************)
FallbackTags ==
  { "if (force_eager_fallback(", "|| (.has_value() && ->defined())",
    ") { return call_fallback_fn<&ltc_eager_fallback,", "fallback_arg", "); }" }
DeviceTags ==
  { "auto common_device = get_device_fn(", "device_arg", "); device",
    "TORCH_INTERNAL_ASSERT(common_device);" }
ShapeTags ==
  { "auto out_meta = at::meta::", "meta_arg", "); meta",
    "std::vector<torch::lazy::Shape> shapes{", "shape_of", "};", "auto shapes =",
    "torch::lazy::compute_shape_", "call_arg", ")", "; shapes",
    "TORCH_INTERNAL_ASSERT(shapes.size() ==",
    "if(torch::lazy::symbolicShapeEnabled()){", "ivalue", "schema_str",
    "applySymbolicShapesOnLT(schema_str, inputs, shapes);", "} symbolic" }
NodeTags ==
  { "torch::lazy::NodePtr node = torch::lazy::ReuseNode<", "rvalue", "); reuse",
    "if (!node) {", "node = torch::lazy::MakeNode<", ", std::move(shapes));",
    "CacheNode(node);", "} miss" } \cup ShapeTags
ResultTags ==
  { "auto result = create_aten_from_ltc_tensor(", "create_lazy_tensor",
    "(std::move(node), *common_device));", "std::vector<lazy_tensor_ptr> lazy_tensors;",
    "for (int i = 0; i <", "lazy_tensors.push_back(",
    "(Value(node, i), *common_device)); }", "auto result = tuple_aten_from_ltc_tensors<",
    "use", "auto& result =", "return result;" }

\* The fragment a token belongs to: 1..6 in the order of the claim, 0 and 7
\* for the function's head and its closing brace, -1 for no known fragment.
Fragment(t) ==
  CASE t[1] \in {"sig.decl", "{ body"} -> 0
    [] t[1] \in FallbackTags -> 1
    [] t[1] = "metrics_counter;" -> 2
    [] t[1] \in DeviceTags -> 3
    [] t[1] = "decl" -> 4
    [] t[1] \in NodeTags -> 5
    [] t[1] \in ResultTags -> 6
    [] t[1] = "}; body" -> 7
    [] OTHER -> -1

EmittedNative ==
  call = "GenLazyNativeFuncDefinition.__call__" /\ out.status = "ok"
HasFragment(n) == \E i \in DOMAIN out.text : Fragment(out.text[i]) = n
Once(tag) == Len(Tagged(out.text, tag)) = 1

C7_FragmentOrder ==
  EmittedNative =>
    /\ \A i \in DOMAIN out.text : Fragment(out.text[i]) >= 0
    /\ \A i \in 1..(Len(out.text) - 1) :
         Fragment(out.text[i]) <= Fragment(out.text[i + 1])
    /\ HasFragment(1) <=> gen.gen_forced_fallback_code
    /\ \A n \in {2, 3, 5, 6} : HasFragment(n)
    /\ \A tag \in { "torch::lazy::NodePtr node = torch::lazy::ReuseNode<",
                    "if (!node) {", "node = torch::lazy::MakeNode<",
                    "CacheNode(node);", "} miss",
                    "TORCH_INTERNAL_ASSERT(shapes.size() ==" } : Once(tag)
    /\ LET at(tag) == FirstIdx(out.text, tag)
           reuse == at("torch::lazy::NodePtr node = torch::lazy::ReuseNode<")
           miss == at("if (!node) {")
           make == at("node = torch::lazy::MakeNode<")
       IN /\ reuse < miss /\ miss < make
          /\ make < at("CacheNode(node);")
          /\ at("CacheNode(node);") < at("} miss")
          /\ \A i \in DOMAIN out.text :
               out.text[i][1] \in ShapeTags <=> (miss < i /\ i < make)
          /\ Tagged(out.text, "TORCH_INTERNAL_ASSERT(shapes.size() ==")
               = << <<"TORCH_INTERNAL_ASSERT(shapes.size() ==", ToString(func.returns)>> >>

\* A body with the fallback guard, unwrapped arguments and two returns.
C7_Witness ==
  /\ EmittedNative
  /\ gen.gen_forced_fallback_code
  /\ func.returns = 2
  /\ HasFragment(4)

(***************************************************************************)
(* C8: for an operation with no value argument other than wrapped scalars  *)
(* (or with no value argument at all) GenLazyNativeFuncDefinition.__call__ *)
(* fails with the assertion of get_device and returns no text; in every    *)
(* emitted body the device-resolution call receives exactly the            *)
(* non-wrapped-scalar value arguments, in order.                           *)
(***************************************************************************)
DeviceArgs == Between(out.text, "auto common_device = get_device_fn(", "); device")

C8_DeviceNeedsTensor ==
  (call = "GenLazyNativeFuncDefinition.__call__" /\ out.status # "none") =>
    /\ TensorArgs = <<>> =>
         /\ out.status = "AssertionError"
         /\ out.text = <<>>
         /\ func.kernel => out.at = "get_device"
    /\ out.status = "ok" =>
         /\ \A i \in DOMAIN DeviceArgs : DeviceArgs[i][1] = "device_arg"
         /\ NamesOf(DeviceArgs) = TensorArgs

\* An operation whose only value argument is a wrapped scalar is rejected.
C8_Witness ==
  /\ call = "GenLazyNativeFuncDefinition.__call__"
  /\ out.status = "AssertionError"
  /\ out.at = "get_device"
  /\ \E i \in DOMAIN func.args : func.args[i] \in WrappedScalarTypes

(***************************************************************************)
(* C9: a value argument whose resolved type is none of those an emission   *)
(* step dispatches on makes the step raise, and the enclosing emitter      *)
(* returns no text: node_base_ctor_call (in GenLazyIR.gen) takes BaseCType,*)
(* VectorCType and OptionalCType; node_ctor_arg_rvalue_string takes        *)
(* BaseCType and OptionalCType; lazy_tensor_decls takes wrapped scalars,   *)
(* symbolic integers, BaseCType and OptionalCType.  In emitted text every  *)
(* value argument has its OpList operand, its constructor rvalue and,      *)
(* unless it is a symbolic integer, its declaration.                       *)
(***************************************************************************)
Resolved(i) == process_ir_type(func.args[i])[1]
ValueArgIdx == {i \in DOMAIN func.args : func.args[i] \in ValueTypes}
UnknownToCtorCall ==
  {i \in ValueArgIdx : Resolved(i) \notin {"BaseCType", "VectorCType", "OptionalCType"}}
UnknownToRvalue ==
  {i \in ValueArgIdx : Resolved(i) \notin {"BaseCType", "OptionalCType"}}
UnknownToDecls ==
  {i \in UnknownToRvalue : func.args[i] \notin WrappedScalarTypes \cup {"SymInt"}}
Raised(where) ==
  out.status = "AssertionError" /\ out.at \in where /\ out.text = <<>>

C9_UnknownTypeRaises ==
  /\ (call \in IRCalls /\ out.status # "none") =>
       /\ UnknownToCtorCall # {} => Raised({"node_base_ctor_call"})
       /\ out.status = "ok" =>
            NamesOf(OpList) = ArgsOfType(func, ValueTypes)
  /\ (call = "GenLazyNativeFuncDefinition.__call__" /\ out.status # "none"
        /\ func.kernel) =>
       /\ UnknownToDecls # {} => Raised({"lazy_tensor_decls"})
       /\ UnknownToRvalue # {} =>
            Raised({"get_device", "lazy_tensor_decls", "node_ctor_arg_rvalue_string"})
       /\ out.status = "ok" =>
            /\ NamesOf(Tagged(out.text, "decl"))
                 = ArgsOfType(func, ValueTypes \ {"SymInt"})
            /\ Restrict(NamesOf(Tagged(Between(out.text,
                   "torch::lazy::NodePtr node = torch::lazy::ReuseNode<", "); reuse"),
                   "rvalue")), ToSet(ArgsOfType(func, ValueTypes)))
                 = ArgsOfType(func, ValueTypes)

\* GenLazyIR.gen refuses a list of optional tensors next to a tensor.
C9_Witness ==
  /\ call \in IRCalls
  /\ Raised({"node_base_ctor_call"})
  /\ \E i, j \in DOMAIN func.args : func.args[i] = "Tensor?[]" /\ func.args[j] = "Tensor"

(***************************************************************************)
(* C11: when return_aten_tensor succeeds its text is exactly one of three  *)
(* forms: for an in-place or out= operation, SetInPlaceIrValue on the      *)
(* first non-wrapped-scalar value argument, which is returned; otherwise,  *)
(* with n > 1 returns, one tensor per output index below n packed into a   *)
(* tuple of arity n; otherwise a single result tensor.  An in-place or     *)
(* out= operation with a number of returns other than 1 fails the          *)
(* assertion and emits nothing.                                            *)
(***************************************************************************)
CreateFrom(first) ==
  IF gen.create_from_first_tensor
    THEN <<"create_lazy_tensor", first, ".create_tensor">>
    ELSE <<"create_lazy_tensor", "backend_namespace", "::create_tensor">>

InPlaceForm(first) ==
  << <<"use", first, "lazy_", "", "->SetInPlaceIrValue(node);">>,
     <<"auto& result =", first>>,
     <<"return result;">> >>

TupleForm(first, n) ==
  << <<"std::vector<lazy_tensor_ptr> lazy_tensors;">>,
     <<"for (int i = 0; i <", ToString(n)>>,
     <<"lazy_tensors.push_back(">>,
     CreateFrom(first),
     <<"(Value(node, i), *common_device)); }">>,
     <<"auto result = tuple_aten_from_ltc_tensors<", ToString(n)>>,
     <<"return result;">> >>

SingleForm(first) ==
  << <<"auto result = create_aten_from_ltc_tensor(">>,
     CreateFrom(first),
     <<"(std::move(node), *common_device));">>,
     <<"return result;">> >>

C11_ThreeReturnForms ==
  Returned =>
    /\ out.status = "ok" =>
         /\ TensorArgs # <<>>
         /\ out.text =
              IF func.kind \in {"inplace", "out"} THEN InPlaceForm(TensorArgs[1])
              ELSE IF func.returns > 1 THEN TupleForm(TensorArgs[1], func.returns)
              ELSE SingleForm(TensorArgs[1])
    /\ (func.kind \in {"inplace", "out"} /\ func.returns # 1) =>
         /\ out.status = "AssertionError"
         /\ out.text = <<>>

\* A functional operation with two returns, packed into a tuple of arity 2
\* by the first tensor's factory.
C11_Witness ==
  /\ Returned
  /\ out.status = "ok"
  /\ func.kind = "functional"
  /\ func.returns = 2
  /\ gen.create_from_first_tensor
  /\ out.text = TupleForm(TensorArgs[1], 2)

(***************************************************************************)
(* C12: in the CanBeReused method GenTSLazyIR emits, the expression        *)
(* compared with operand(i++) for a value argument, positional or keyword, *)
(* is the expression node_base_ctor_call places at that position of the    *)
(* OpList: the bare name of a non-optional value argument,                 *)
(* <name>.value_or(kNullValue) of an optional one.                         *)
(***************************************************************************)
EmittedTS == EmittedIR /\ gen.class = "GenTSLazyIR"
Expressions(toks) == Map(toks, Tail)
OpListExpressions == Expressions(Tagged(OpList, "oplist_arg"))
ComparedExpressions == Expressions(OperandComparisons)
KeywordOptionalValues ==
  {i \in DOMAIN func.args : i > func.npos /\ func.args[i] \in OptionalValueTypes}

C12_ComparesOpListExpression ==
  EmittedTS =>
    /\ ComparedExpressions = OpListExpressions
    /\ \A k \in DOMAIN ComparedExpressions :
         \E i \in DOMAIN func.args :
           /\ func.args[i] \in ValueTypes
           /\ ComparedExpressions[k] =
                IF func.args[i] \in OptionalValueTypes
                  THEN <<ArgNames[i], ".value_or(kNullValue)">>
                  ELSE <<ArgNames[i]>>

\* What GenTSLazyIR.can_be_reused_function does: the comparisons agree with
\* the OpList except at the keyword-only optional value arguments, which the
\* OpList passes as <name>.value_or(kNullValue) and CanBeReused compares by
\* their bare name.
C12_KeywordOptionalComparedBare ==
  EmittedTS =>
    /\ Len(ComparedExpressions) = Len(OpListExpressions)
    /\ \A k \in DOMAIN ComparedExpressions :
         IF \E i \in KeywordOptionalValues : OpListExpressions[k][1] = ArgNames[i]
           THEN /\ OpListExpressions[k] = <<OpListExpressions[k][1], ".value_or(kNullValue)">>
                /\ ComparedExpressions[k] = <<OpListExpressions[k][1]>>
           ELSE ComparedExpressions[k] = OpListExpressions[k]

\* A class for an operator with a tensor and a keyword-only optional tensor:
\* the OpList holds other.value_or(kNullValue), CanBeReused compares other.
C12_Witness ==
  /\ EmittedTS
  /\ func.args = <<"Tensor", "Tensor?">>
  /\ func.npos = 1
  /\ OpListExpressions = << <<"self">>, <<"other", ".value_or(kNullValue)">> >>
  /\ ComparedExpressions = << <<"self">>, <<"other">> >>

(***************************************************************************)
(* C13: in every body GenLazyNativeFuncDefinition.__call__ emits, each     *)
(* local lazy_<name>, lazy_<name>_tensorlist or node_<name> referenced by  *)
(* the node-construction arguments or by the result materialization        *)
(* (lazy_<first tensor>->SetInPlaceIrValue included) is declared exactly   *)
(* once by the text of lazy_tensor_decls, ahead of the reference; also     *)
(* when the argument is a tensor list, a wrapped scalar or a symbolic      *)
(* integer.                                                                *)
(***************************************************************************)
\* The local a declaration, rvalue or use token names: prefix, argument, suffix.
Local(t) == <<t[3], t[2], t[4]>>
References ==
  {j \in DOMAIN out.text : out.text[j][1] \in {"rvalue", "use"} /\ out.text[j][3] # ""}
Declarations(id) ==
  {i \in DOMAIN out.text : out.text[i][1] = "decl" /\ Local(out.text[i]) = id}
DeclaredOnceBefore(j) ==
  LET ds == Declarations(Local(out.text[j]))
  IN Cardinality(ds) = 1 /\ \A i \in ds : i < j

C13_LocalsDeclared ==
  EmittedNative => \A j \in References : DeclaredOnceBefore(j)

\* What the emitted bodies satisfy: the locals node construction references
\* are declared once, ahead of it; the local of SetInPlaceIrValue is
\* lazy_<first non-wrapped-scalar value argument>, declared only when that
\* argument is a tensor or an optional tensor.
C13_LocalsDeclaredButInPlace ==
  EmittedNative =>
    \A j \in References :
      IF out.text[j][1] = "use"
        THEN /\ func.kind \in {"inplace", "out"}
             /\ Local(out.text[j]) = <<"lazy_", TensorArgs[1], "">>
             /\ DeclaredOnceBefore(j) <=>
                  \E i \in DOMAIN func.args :
                    /\ ArgNames[i] = TensorArgs[1]
                    /\ func.args[i] \in {"Tensor", "Tensor?"}
        ELSE DeclaredOnceBefore(j)

\* An out= operation on a tensor list (cat.out): lazy_self_tensorlist is
\* declared, lazy_self->SetInPlaceIrValue(node) is emitted.
C13_Witness ==
  /\ EmittedNative
  /\ func.kind = "out"
  /\ func.args = <<"Tensor[]", "Tensor">>
  /\ Declarations(<<"lazy_", "self", "_tensorlist">>) # {}
  /\ Declarations(<<"lazy_", "self", "">>) = {}
  /\ \E j \in References : out.text[j] = <<"use", "self", "lazy_", "", "->SetInPlaceIrValue(node);">>

====
